---- MODULE Spec2Model ----
(***************************************************************************)
(* JuryChain: the on-chain case registry and vote ledger                   *)
(* (blockchain/hardhat.config.ts, contract JuryChain), as a state machine. *)
(* One action per external function of the contract; every transaction is  *)
(* atomic, a revert changes nothing but the recorded outcome of the call.  *)
(***************************************************************************)
EXTENDS Integers, Sequences, FiniteSets, TLC

\* ------------------------------------------------------------------ bounds
MaxPeriod == 1
MaxTime == 2
\* calls of getFheInstance made by one page
MaxCalls == 3

\* ------------------------------------------------------- program constants
\* euint32 / uint32 values are kept as two 16-bit limbs <<hi, lo>>, so that
\* the 32-bit wrap-around of FHE.add / FHE.sub is exact.
W16 == 65536
HardhatChainId == 31337
SepoliaChainId == 11155111

ZeroAddr == "0x0"
This == "contract"
Addr == {"judge", "jurorA", "jurorB", "outsider"}
\* the accounts that create cases, and the accounts a judge grants access to
Judges == {"judge"}
Grantees == {"outsider"}
ChainIds == {HardhatChainId, SepoliaChainId, 1}
MetadataURIs == {"ipfs://jury-case-1"}
\* keys of _cases that are read (0 is never assigned), and the case IDs that
\* transactions name: the ledger is explored one case at a time, since every
\* function reads and writes _cases[caseId] only
CaseIdSpace == {0, 1}
CallIds == {1}
Periods == 0..MaxPeriod
\* juror lists handed to createCase: empty, the judge as sole juror, two
\* jurors, one juror listed twice
JurorLists == {<<>>, <<"judge">>, <<"jurorA", "jurorB">>, <<"jurorA", "jurorA">>}
\* an external encrypted input: the plaintext it encrypts and whether its
\* zero-knowledge proof verifies
VoteInputs == {[val |-> 0, proofOk |-> TRUE], [val |-> 1, proofOk |-> TRUE],
               [val |-> 2, proofOk |-> TRUE], [val |-> 1, proofOk |-> FALSE]}

\* ------------------------------------------------------ 32-bit arithmetic
U32(n) == <<n \div W16, n % W16>>
Add32(a, b) ==
  LET lo == a[2] + b[2]
  IN <<(a[1] + b[1] + (lo \div W16)) % W16, lo % W16>>
Sub32(a, b) ==
  LET lo == a[2] - b[2]
      borrow == IF lo < 0 THEN 1 ELSE 0
  IN <<(a[1] - b[1] - borrow + W16) % W16, (lo + W16) % W16>>

\* ------------------------------------------- encrypted-arithmetic capability
\* A ciphertext is [id, val]: id is the opaque handle (the name the
\* coprocessor gives the value), val the plaintext it hides.  A stored value
\* is named <<case, slot, owner, version>>; every operation yields a handle
\* that did not exist before (the next version of its left operand's slot).
TmpId == <<0, "tmp", ZeroAddr, 0>>
NullHandle == [id |-> <<0, "null", ZeroAddr, 0>>, val |-> U32(0)]
NullBool == [id |-> <<0, "null", ZeroAddr, 0>>, val |-> FALSE]
NextId(id) == <<id[1], id[2], id[3], id[4] + 1>>
FHEasEuint32(id, n) == [id |-> id, val |-> U32(n)]
FHEasEbool(id, b) == [id |-> id, val |-> b]
FHEfromExternal(input) == [id |-> TmpId, val |-> U32(input.val)]
FHEselect(c, a, b) == IF c.val THEN a ELSE b
FHEadd(a, b) == [id |-> NextId(a.id), val |-> Add32(a.val, b.val)]
FHEsub(a, b) == [id |-> NextId(a.id), val |-> Sub32(a.val, b.val)]
FHEallowThis(h) == {<<h.id, This>>}
FHEallow(h, account) == {<<h.id, account>>}
Decrypt(h) == h.val

\* -------------------------------------------------------------------- state
VARIABLES
  nextCaseId,   \* _nextCaseId
  cases,        \* _cases: caseId -> CaseData
  caseJurors,   \* _caseJurors: caseId -> address[]
  caseIds,      \* _caseIds
  acl,          \* the FHE access-control list: <<handle id, account>>
  now,          \* block.timestamp
  chainId,      \* block.chainid
  ballots,      \* history: what each address successfully voted, per case
  closedBy,     \* history: who closed each case (ZeroAddr while not closed)
  last,         \* outcome of the latest transaction
  events,       \* the emitted event log, filtered by the indexed caseId
  instancePromise,  \* front end: the cached promise (0 is null), else its index
  promises,     \* front end: every promise created so far, by index
  sdk           \* front end: progress of the initialization and SDK run counts

vars == <<nextCaseId, cases, caseJurors, caseIds, acl, now, chainId, ballots, closedBy, last, events,
         instancePromise, promises, sdk>>
\* the state of the web page, which no transaction touches
frontEnd == <<instancePromise, promises, sdk>>

NoBallot == [path |-> "none", val |-> 0]
\* part_006 line 12: instancePromise = null, nothing imported or initialized
SdkIdle == [pc |-> "idle", promise |-> 0, imports |-> 0, initSDK |-> 0, createInstance |-> 0]

\* lines 214-217: the events; who is the indexed address (none for CaseClosed)
CaseCreated(caseId, judge) == [name |-> "CaseCreated", caseId |-> caseId, who |-> judge]
VoteSubmitted(caseId, juror) == [name |-> "VoteSubmitted", caseId |-> caseId, who |-> juror]
CaseClosed(caseId) == [name |-> "CaseClosed", caseId |-> caseId, who |-> ZeroAddr]
ResultAccessGranted(caseId, account) ==
  [name |-> "ResultAccessGranted", caseId |-> caseId, who |-> account]
emit(log, e) == [log EXCEPT ![e.caseId] = Append(@, e)]

EmptyCase ==
  [judge |-> ZeroAddr, deadline |-> 0, isClosed |-> FALSE, metadataURI |-> "",
   votesCast |-> 0, jurorCount |-> 0, plainGuilty |-> 0, plainNotGuilty |-> 0,
   encryptedGuilty |-> NullHandle, encryptedNotGuilty |-> NullHandle,
   isJuror |-> [a \in Addr |-> FALSE],
   plainHasVoted |-> [a \in Addr |-> FALSE],
   encryptedHasVoted |-> [a \in Addr |-> NullBool]]

Range(s) == {s[i] : i \in 1..Len(s)}

Init ==
  /\ nextCaseId = 0
  /\ cases = [c \in CaseIdSpace |-> EmptyCase]
  /\ caseJurors = [c \in CaseIdSpace |-> <<>>]
  /\ caseIds = <<>>
  /\ acl = {}
  /\ now = 0
  /\ chainId \in ChainIds
  /\ ballots = [c \in CaseIdSpace |-> [a \in Addr |-> NoBallot]]
  /\ closedBy = [c \in CaseIdSpace |-> ZeroAddr]
  /\ last = [op |-> "deploy", caseId |-> 0, sender |-> ZeroAddr, err |-> "ok", jurorsLen |-> 0]
  /\ events = [c \in CaseIdSpace |-> <<>>]
  /\ instancePromise = 0 /\ promises = <<>> /\ sdk = SdkIdle

\* jurorsLen: the length of the juror list of a createCase call (0 otherwise)
OutcomeOf(op, caseId, sender, err, jurorsLen) ==
  [op |-> op, caseId |-> caseId, sender |-> sender, err |-> err, jurorsLen |-> jurorsLen]
Outcome(op, caseId, sender, err) == OutcomeOf(op, caseId, sender, err, 0)

\* a reverted transaction: nothing changes but the recorded outcome
Revert(op, caseId, sender, err) ==
  /\ last' = Outcome(op, caseId, sender, err)
  /\ UNCHANGED <<frontEnd, nextCaseId, cases, caseJurors, caseIds, acl, now, chainId, ballots, closedBy, events>>

\* --------------------------------------------------------------- createCase
\* variant: the empty juror list is accepted
createCaseChecksAcceptsEmpty(jurors) == "ok"

createCaseChecks(jurors) ==
  IF Len(jurors) = 0 THEN "NotJuror" ELSE "ok"

createCaseData(caseId, sender, metadataURI, jurors, votingPeriodSeconds, t) ==
  [judge |-> sender,
   deadline |-> t + votingPeriodSeconds,
   isClosed |-> FALSE,
   metadataURI |-> metadataURI,
   votesCast |-> 0,
   jurorCount |-> Len(jurors),
   plainGuilty |-> 0,
   plainNotGuilty |-> 0,
   encryptedGuilty |-> FHEasEuint32(<<caseId, "guilty", ZeroAddr, 0>>, 0),
   encryptedNotGuilty |-> FHEasEuint32(<<caseId, "notGuilty", ZeroAddr, 0>>, 0),
   isJuror |-> [a \in Addr |-> a \in Range(jurors)],
   plainHasVoted |-> [a \in Addr |-> FALSE],
   encryptedHasVoted |->
     [a \in Addr |-> IF a \in Range(jurors)
                     THEN FHEasEbool(<<caseId, "hasVoted", a, 0>>, FALSE)
                     ELSE NullBool]]

\* variant: the jurors are granted the tallies at creation
createCaseAllowJurorsToo(data, sender, jurors) ==
  FHEallowThis(data.encryptedGuilty) \cup FHEallowThis(data.encryptedNotGuilty)
    \cup FHEallow(data.encryptedGuilty, sender)
    \cup FHEallow(data.encryptedNotGuilty, sender)
    \cup UNION {FHEallowThis(data.encryptedHasVoted[a]) : a \in Range(jurors)}
    \cup UNION {FHEallow(data.encryptedGuilty, a) : a \in Range(jurors)}

createCaseAllow(data, sender, jurors) ==
  FHEallowThis(data.encryptedGuilty) \cup FHEallowThis(data.encryptedNotGuilty)
    \cup FHEallow(data.encryptedGuilty, sender)
    \cup FHEallow(data.encryptedNotGuilty, sender)
    \cup UNION {FHEallowThis(data.encryptedHasVoted[a]) : a \in Range(jurors)}

\* variant: the counter is read before it is incremented
newCaseIdPostIncrement(n) == n

\* variant: the counter stops advancing, so an ID is handed out again
newCaseIdReuses(n) == IF n >= 1 THEN 1 ELSE n + 1

\* line 264: caseId = ++_nextCaseId
newCaseId(n) == n + 1

createCase(sender, metadataURI, jurors, votingPeriodSeconds) ==
  LET err == createCaseChecks(jurors)
      caseId == newCaseId(nextCaseId)
      data == createCaseData(caseId, sender, metadataURI, jurors, votingPeriodSeconds, now)
  IN IF err # "ok"
     THEN Revert("createCase", 0, sender, err)
     ELSE /\ caseId \in DOMAIN cases
          /\ nextCaseId' = caseId
          /\ cases' = [cases EXCEPT ![caseId] = data]
          /\ acl' = acl \cup createCaseAllow(data, sender, jurors)
          /\ caseJurors' = [caseJurors EXCEPT ![caseId] = jurors]
          /\ caseIds' = Append(caseIds, caseId)
          /\ events' = emit(events, CaseCreated(caseId, sender))
          /\ last' = OutcomeOf("createCase", caseId, sender, "ok", Len(jurors))
          /\ UNCHANGED <<frontEnd, now, chainId, ballots, closedBy>>

\* ----------------------------------------------------------------- castVote
\* variant: the AlreadyVoted gate is missing
castVoteChecksNoReplayGate(data, sender, t) ==
  IF data.judge = ZeroAddr THEN "CaseNotFound"
  ELSE IF data.isClosed \/ t >= data.deadline THEN "VotingClosed"
  ELSE IF ~data.isJuror[sender] THEN "NotJuror"
  ELSE "ok"

\* variant: the NotJuror gate is missing
castVoteChecksNoJurorGate(data, sender, t) ==
  IF data.judge = ZeroAddr THEN "CaseNotFound"
  ELSE IF data.isClosed \/ t >= data.deadline THEN "VotingClosed"
  ELSE IF data.plainHasVoted[sender] THEN "AlreadyVoted"
  ELSE "ok"

\* variant: the juror and replay gates come before the closed/deadline gate
castVoteChecksClosedLast(data, sender, t) ==
  IF data.judge = ZeroAddr THEN "CaseNotFound"
  ELSE IF ~data.isJuror[sender] THEN "NotJuror"
  ELSE IF data.plainHasVoted[sender] THEN "AlreadyVoted"
  ELSE IF data.isClosed \/ t >= data.deadline THEN "VotingClosed"
  ELSE "ok"

\* variant: a vote is still accepted at the deadline itself
castVoteChecksDeadlineInclusive(data, sender, t) ==
  IF data.judge = ZeroAddr THEN "CaseNotFound"
  ELSE IF data.isClosed \/ t > data.deadline THEN "VotingClosed"
  ELSE IF ~data.isJuror[sender] THEN "NotJuror"
  ELSE IF data.plainHasVoted[sender] THEN "AlreadyVoted"
  ELSE "ok"

\* lines 356-359: the validation checks, in order
castVoteChecks(data, sender, t) ==
  IF data.judge = ZeroAddr THEN "CaseNotFound"
  ELSE IF data.isClosed \/ t >= data.deadline THEN "VotingClosed"
  ELSE IF ~data.isJuror[sender] THEN "NotJuror"
  ELSE IF data.plainHasVoted[sender] THEN "AlreadyVoted"
  ELSE "ok"

\* variant: the sanitized vote is added to both tallies
castVoteTallySameToBoth(data, sender, input) ==
  LET voteValue == FHEfromExternal(input)
      already == data.encryptedHasVoted[sender]
      sanitizedVote == FHEselect(already, FHEasEuint32(TmpId, 0), voteValue)
  IN [data EXCEPT !.encryptedGuilty = FHEadd(@, sanitizedVote),
                  !.encryptedNotGuilty = FHEadd(@, sanitizedVote)]

\* variant: the vote replaces the guilty tally instead of being added to it
castVoteTallyLastVoteWins(data, sender, input) ==
  LET voteValue == FHEfromExternal(input)
      already == data.encryptedHasVoted[sender]
      sanitizedVote == FHEselect(already, FHEasEuint32(TmpId, 0), voteValue)
      invertedVote == FHEsub(FHEasEuint32(TmpId, 1), sanitizedVote)
  IN [data EXCEPT !.encryptedGuilty = [id |-> NextId(@.id), val |-> sanitizedVote.val],
                  !.encryptedNotGuilty = FHEadd(@, invertedVote)]

\* lines 364-383: the encrypted path (import, select, subtract, add)
castVoteTally(data, sender, input) ==
  LET voteValue == FHEfromExternal(input)
      already == data.encryptedHasVoted[sender]
      sanitizedVote == FHEselect(already, FHEasEuint32(TmpId, 0), voteValue)
      invertedVote == FHEsub(FHEasEuint32(TmpId, 1), sanitizedVote)
  IN [data EXCEPT !.encryptedGuilty = FHEadd(@, sanitizedVote),
                  !.encryptedNotGuilty = FHEadd(@, invertedVote)]

\* variant: the contract's own permission on the new tallies is not renewed
castVoteAllowNoSelf(data, sender) ==
  FHEallow(data.encryptedGuilty, data.judge)
    \cup FHEallow(data.encryptedNotGuilty, data.judge)
    \cup FHEallowThis(data.encryptedHasVoted[sender])

\* lines 387-392, 397: permissions on the values just stored
castVoteAllow(data, sender) ==
  FHEallowThis(data.encryptedGuilty) \cup FHEallowThis(data.encryptedNotGuilty)
    \cup FHEallow(data.encryptedGuilty, data.judge)
    \cup FHEallow(data.encryptedNotGuilty, data.judge)
    \cup FHEallowThis(data.encryptedHasVoted[sender])

\* variant: the plaintext has-voted flag is not set
castVoteMarkForgetsFlag(data, caseId, sender) ==
  [data EXCEPT !.encryptedHasVoted[sender] =
                  FHEasEbool(<<caseId, "hasVoted", sender, 1>>, TRUE),
               !.votesCast = @ + 1]

\* variant: a vote is counted twice
castVoteMarkCountsTwice(data, caseId, sender) ==
  [data EXCEPT !.encryptedHasVoted[sender] =
                  FHEasEbool(<<caseId, "hasVoted", sender, 1>>, TRUE),
               !.plainHasVoted[sender] = TRUE,
               !.votesCast = @ + 2]

\* variant: the encrypted has-voted flag is left as it was
castVoteMarkPlainOnly(data, caseId, sender) ==
  [data EXCEPT !.plainHasVoted[sender] = TRUE,
               !.votesCast = @ + 1]

\* variant: the new encrypted flag is stored under case 1, whatever the case
castVoteMarkSharedFlag(data, caseId, sender) ==
  [data EXCEPT !.encryptedHasVoted[sender] =
                  FHEasEbool(<<1, "hasVoted", sender, 1>>, TRUE),
               !.plainHasVoted[sender] = TRUE,
               !.votesCast = @ + 1]

\* lines 396-401: mark the juror as voted
castVoteMark(data, caseId, sender) ==
  [data EXCEPT !.encryptedHasVoted[sender] =
                  FHEasEbool(<<caseId, "hasVoted", sender, 1>>, TRUE),
               !.plainHasVoted[sender] = TRUE,
               !.votesCast = @ + 1]

\* variant: the vote is stored before the proof is verified, and a failed
\* verification returns without undoing it
castVoteStoresBeforeProof(sender, caseId, input) ==
  LET data == cases[caseId]
      err == castVoteChecks(data, sender, now)
      voted == castVoteMark(castVoteTally(data, sender, input), caseId, sender)
  IN IF err # "ok"
     THEN Revert("castVote", caseId, sender, err)
     ELSE /\ cases' = [cases EXCEPT ![caseId] = voted]
          /\ acl' = acl \cup castVoteAllow(voted, sender)
          /\ ballots' = [ballots EXCEPT ![caseId][sender] =
                            [path |-> "castVote", val |-> input.val]]
          /\ events' = emit(events, VoteSubmitted(caseId, sender))
          /\ last' = Outcome("castVote", caseId, sender,
                              IF input.proofOk THEN "ok" ELSE "InvalidProof")
          /\ UNCHANGED <<frontEnd, nextCaseId, caseJurors, caseIds, now, chainId, closedBy>>

castVote(sender, caseId, input) ==
  LET data == cases[caseId]
      err == castVoteChecks(data, sender, now)
      voted == castVoteMark(castVoteTally(data, sender, input), caseId, sender)
  IN IF err # "ok"
     THEN Revert("castVote", caseId, sender, err)
     ELSE IF ~input.proofOk
     THEN Revert("castVote", caseId, sender, "InvalidProof")
     ELSE /\ cases' = [cases EXCEPT ![caseId] = voted]
          /\ acl' = acl \cup castVoteAllow(voted, sender)
          /\ ballots' = [ballots EXCEPT ![caseId][sender] =
                            [path |-> "castVote", val |-> input.val]]
          /\ events' = emit(events, VoteSubmitted(caseId, sender))
          /\ last' = Outcome("castVote", caseId, sender, "ok")
          /\ UNCHANGED <<frontEnd, nextCaseId, caseJurors, caseIds, now, chainId, closedBy>>

\* -------------------------------------------------------------- castVoteDev
\* variant: the chain gate is missing
castVoteDevChecksNoChainGate(data, sender, t, chain) ==
  IF data.judge = ZeroAddr THEN "CaseNotFound"
  ELSE IF data.isClosed \/ t >= data.deadline THEN "VotingClosed"
  ELSE IF ~data.isJuror[sender] THEN "NotJuror"
  ELSE IF data.plainHasVoted[sender] THEN "AlreadyVoted"
  ELSE "ok"

\* variant: the juror gate comes before the closed/deadline gate
castVoteDevChecksJurorFirst(data, sender, t, chain) ==
  IF chain # HardhatChainId /\ chain # SepoliaChainId THEN "Unauthorized"
  ELSE IF data.judge = ZeroAddr THEN "CaseNotFound"
  ELSE IF ~data.isJuror[sender] THEN "NotJuror"
  ELSE IF data.isClosed \/ t >= data.deadline THEN "VotingClosed"
  ELSE IF data.plainHasVoted[sender] THEN "AlreadyVoted"
  ELSE "ok"

\* variant: the AlreadyVoted gate is missing
castVoteDevChecksNoReplayGate(data, sender, t, chain) ==
  IF chain # HardhatChainId /\ chain # SepoliaChainId THEN "Unauthorized"
  ELSE IF data.judge = ZeroAddr THEN "CaseNotFound"
  ELSE IF data.isClosed \/ t >= data.deadline THEN "VotingClosed"
  ELSE IF ~data.isJuror[sender] THEN "NotJuror"
  ELSE "ok"

castVoteDevChecks(data, sender, t, chain) ==
  IF chain # HardhatChainId /\ chain # SepoliaChainId THEN "Unauthorized"
  ELSE IF data.judge = ZeroAddr THEN "CaseNotFound"
  ELSE IF data.isClosed \/ t >= data.deadline THEN "VotingClosed"
  ELSE IF ~data.isJuror[sender] THEN "NotJuror"
  ELSE IF data.plainHasVoted[sender] THEN "AlreadyVoted"
  ELSE "ok"

\* variant: both encrypted tallies are raised
castVoteDevTallyRaisesBoth(data, isGuilty) ==
  IF isGuilty
  THEN [data EXCEPT !.encryptedGuilty = FHEadd(@, FHEasEuint32(TmpId, 1)),
                    !.encryptedNotGuilty = FHEadd(@, FHEasEuint32(TmpId, 1)),
                    !.plainGuilty = @ + 1]
  ELSE [data EXCEPT !.encryptedGuilty = FHEadd(@, FHEasEuint32(TmpId, 1)),
                    !.encryptedNotGuilty = FHEadd(@, FHEasEuint32(TmpId, 1)),
                    !.plainNotGuilty = @ + 1]

\* variant: the plaintext counter of the other verdict is raised
castVoteDevTallyPlainSwapped(data, isGuilty) ==
  IF isGuilty
  THEN [data EXCEPT !.encryptedGuilty = FHEadd(@, FHEasEuint32(TmpId, 1)),
                    !.plainNotGuilty = @ + 1]
  ELSE [data EXCEPT !.encryptedNotGuilty = FHEadd(@, FHEasEuint32(TmpId, 1)),
                    !.plainGuilty = @ + 1]

\* lines 420-426
castVoteDevTally(data, isGuilty) ==
  IF isGuilty
  THEN [data EXCEPT !.encryptedGuilty = FHEadd(@, FHEasEuint32(TmpId, 1)),
                    !.plainGuilty = @ + 1]
  ELSE [data EXCEPT !.encryptedNotGuilty = FHEadd(@, FHEasEuint32(TmpId, 1)),
                    !.plainNotGuilty = @ + 1]

castVoteDev(sender, caseId, isGuilty) ==
  LET data == cases[caseId]
      err == castVoteDevChecks(data, sender, now, chainId)
      voted == castVoteMark(castVoteDevTally(data, isGuilty), caseId, sender)
  IN IF err # "ok"
     THEN Revert("castVoteDev", caseId, sender, err)
     ELSE /\ cases' = [cases EXCEPT ![caseId] = voted]
          /\ acl' = acl \cup castVoteAllow(voted, sender)
          /\ ballots' = [ballots EXCEPT ![caseId][sender] =
                            [path |-> "castVoteDev", val |-> IF isGuilty THEN 1 ELSE 0]]
          /\ events' = emit(events, VoteSubmitted(caseId, sender))
          /\ last' = Outcome("castVoteDev", caseId, sender, "ok")
          /\ UNCHANGED <<frontEnd, nextCaseId, caseJurors, caseIds, now, chainId, closedBy>>

\* ---------------------------------------------------------------- closeCase
\* variant: closing needs the deadline AND all votes
closeCaseChecksNeedsBoth(data, sender, t) ==
  IF data.judge = ZeroAddr THEN "CaseNotFound"
  ELSE IF data.isClosed THEN "CaseClosedAlready"
  ELSE IF sender # data.judge THEN "Unauthorized"
  ELSE IF t < data.deadline \/ data.votesCast < data.jurorCount THEN "VotingActive"
  ELSE "ok"

\* variant: any caller may close
closeCaseChecksAnyCaller(data, sender, t) ==
  IF data.judge = ZeroAddr THEN "CaseNotFound"
  ELSE IF data.isClosed THEN "CaseClosedAlready"
  ELSE IF t < data.deadline /\ data.votesCast < data.jurorCount THEN "VotingActive"
  ELSE "ok"

\* variant: the caller is checked before the closed flag
closeCaseChecksCallerFirst(data, sender, t) ==
  IF data.judge = ZeroAddr THEN "CaseNotFound"
  ELSE IF sender # data.judge THEN "Unauthorized"
  ELSE IF data.isClosed THEN "CaseClosedAlready"
  ELSE IF t < data.deadline /\ data.votesCast < data.jurorCount THEN "VotingActive"
  ELSE "ok"

\* variant: the deadline does not open the case for closing
closeCaseChecksNeedsAllVotes(data, sender, t) ==
  IF data.judge = ZeroAddr THEN "CaseNotFound"
  ELSE IF data.isClosed THEN "CaseClosedAlready"
  ELSE IF sender # data.judge THEN "Unauthorized"
  ELSE IF data.votesCast < data.jurorCount THEN "VotingActive"
  ELSE "ok"

closeCaseChecks(data, sender, t) ==
  IF data.judge = ZeroAddr THEN "CaseNotFound"
  ELSE IF data.isClosed THEN "CaseClosedAlready"
  ELSE IF sender # data.judge THEN "Unauthorized"
  ELSE IF t < data.deadline /\ data.votesCast < data.jurorCount THEN "VotingActive"
  ELSE "ok"

\* variant: the closed flag is not set
closeCaseDataStaysOpen(data) == data

closeCaseData(data) == [data EXCEPT !.isClosed = TRUE]

\* variant: the jurors are granted the guilty tally only
closeCaseAllowGuiltyOnly(data, jurors) ==
  UNION {FHEallow(data.encryptedGuilty, jurors[i]) : i \in 1..Len(jurors)}

closeCaseAllow(data, jurors) ==
  UNION {FHEallow(data.encryptedGuilty, jurors[i])
           \cup FHEallow(data.encryptedNotGuilty, jurors[i]) : i \in 1..Len(jurors)}

closeCase(sender, caseId) ==
  LET data == cases[caseId]
      err == closeCaseChecks(data, sender, now)
  IN IF err # "ok"
     THEN Revert("closeCase", caseId, sender, err)
     ELSE /\ cases' = [cases EXCEPT ![caseId] = closeCaseData(data)]
          /\ acl' = acl \cup closeCaseAllow(data, caseJurors[caseId])
          /\ closedBy' = [closedBy EXCEPT ![caseId] = sender]
          /\ events' = emit(events, CaseClosed(caseId))
          /\ last' = Outcome("closeCase", caseId, sender, "ok")
          /\ UNCHANGED <<frontEnd, nextCaseId, caseJurors, caseIds, now, chainId, ballots>>

\* -------------------------------------------------------- grantResultAccess
\* variant: access can be granted before closure
grantResultAccessChecksNoClosedGate(data, sender) ==
  IF data.judge = ZeroAddr THEN "CaseNotFound"
  ELSE IF sender # data.judge THEN "Unauthorized"
  ELSE "ok"

grantResultAccessChecks(data, sender) ==
  IF data.judge = ZeroAddr THEN "CaseNotFound"
  ELSE IF ~data.isClosed THEN "VotingActive"
  ELSE IF sender # data.judge THEN "Unauthorized"
  ELSE "ok"

grantResultAccessAllow(data, account) ==
  FHEallow(data.encryptedGuilty, account) \cup FHEallow(data.encryptedNotGuilty, account)

grantResultAccess(sender, caseId, account) ==
  LET data == cases[caseId]
      err == grantResultAccessChecks(data, sender)
  IN IF err # "ok"
     THEN Revert("grantResultAccess", caseId, sender, err)
     ELSE \* a grant the log already holds is not repeated, so the log is finite
          /\ ResultAccessGranted(caseId, account) \notin Range(events[caseId])
          /\ acl' = acl \cup grantResultAccessAllow(data, account)
          /\ events' = emit(events, ResultAccessGranted(caseId, account))
          /\ last' = Outcome("grantResultAccess", caseId, sender, "ok")
          /\ UNCHANGED <<frontEnd, nextCaseId, cases, caseJurors, caseIds, now, chainId, ballots, closedBy>>

\* ------------------------------------------------------------ read functions
\* variant: the handles are returned whether or not the case is closed
getEncryptedTalliesUngated(caseId) ==
  LET data == cases[caseId]
  IN IF data.judge = ZeroAddr THEN [err |-> "CaseNotFound", guilty |-> NullHandle, notGuilty |-> NullHandle]
     ELSE [err |-> "ok", guilty |-> data.encryptedGuilty, notGuilty |-> data.encryptedNotGuilty]

getEncryptedTallies(caseId) ==
  LET data == cases[caseId]
  IN IF data.judge = ZeroAddr THEN [err |-> "CaseNotFound", guilty |-> NullHandle, notGuilty |-> NullHandle]
     ELSE IF ~data.isClosed THEN [err |-> "VotingActive", guilty |-> NullHandle, notGuilty |-> NullHandle]
     ELSE [err |-> "ok", guilty |-> data.encryptedGuilty, notGuilty |-> data.encryptedNotGuilty]

getCaseIds == caseIds

\* lines 562-567
getPlainTallies(caseId, chain) ==
  LET data == cases[caseId]
  IN IF chain # HardhatChainId THEN [err |-> "Unauthorized", guilty |-> 0, notGuilty |-> 0]
     ELSE IF data.judge = ZeroAddr THEN [err |-> "CaseNotFound", guilty |-> 0, notGuilty |-> 0]
     ELSE [err |-> "ok", guilty |-> data.plainGuilty, notGuilty |-> data.plainNotGuilty]

\* the zero value of CaseSummary and of CaseFullDetails
ZeroSummary ==
  [caseId |-> 0, judge |-> ZeroAddr, deadline |-> 0, isClosed |-> FALSE,
   metadataURI |-> "", votesCast |-> 0, jurorCount |-> 0]
ZeroDetails ==
  [caseId |-> 0, judge |-> ZeroAddr, deadline |-> 0, isClosed |-> FALSE,
   metadataURI |-> "", votesCast |-> 0, jurorCount |-> 0, jurors |-> <<>>,
   hasVoted |-> FALSE]

\* lines 529-541
getCase(caseId) ==
  LET data == cases[caseId]
  IN IF data.judge = ZeroAddr THEN [err |-> "CaseNotFound", value |-> ZeroSummary]
     ELSE [err |-> "ok",
           value |-> [caseId |-> caseId, judge |-> data.judge, deadline |-> data.deadline,
                      isClosed |-> data.isClosed, metadataURI |-> data.metadataURI,
                      votesCast |-> data.votesCast, jurorCount |-> data.jurorCount]]

\* lines 546-550
getCaseJurors(caseId) ==
  LET data == cases[caseId]
  IN IF data.judge = ZeroAddr THEN [err |-> "CaseNotFound", value |-> <<>>]
     ELSE [err |-> "ok", value |-> caseJurors[caseId]]

\* variant: the existence check is missing
hasVotedUnchecked(caseId, account) ==
  [err |-> "ok", value |-> cases[caseId].plainHasVoted[account]]

\* lines 573-577
hasVoted(caseId, account) ==
  LET data == cases[caseId]
  IN IF data.judge = ZeroAddr THEN [err |-> "CaseNotFound", value |-> FALSE]
     ELSE [err |-> "ok", value |-> data.plainHasVoted[account]]

\* lines 599-618
getCaseFullDetails(caseId, viewer) ==
  LET data == cases[caseId]
  IN IF data.judge = ZeroAddr THEN [err |-> "CaseNotFound", value |-> ZeroDetails]
     ELSE [err |-> "ok",
           value |-> [caseId |-> caseId, judge |-> data.judge, deadline |-> data.deadline,
                      isClosed |-> data.isClosed, metadataURI |-> data.metadataURI,
                      votesCast |-> data.votesCast, jurorCount |-> data.jurorCount,
                      jurors |-> caseJurors[caseId],
                      hasVoted |-> data.plainHasVoted[viewer]]]

\* lines 646-666: the entry written at one position of the result
batchEntry(caseId, viewer) ==
  LET data == cases[caseId]
  IN IF data.judge = ZeroAddr THEN ZeroDetails
     ELSE [caseId |-> caseId, judge |-> data.judge, deadline |-> data.deadline,
           isClosed |-> data.isClosed, metadataURI |-> data.metadataURI,
           votesCast |-> data.votesCast, jurorCount |-> data.jurorCount,
           jurors |-> caseJurors[caseId],
           hasVoted |-> data.plainHasVoted[viewer]]

\* variant: an ID that does not exist is left out of the result
getBatchCaseDetailsDropsMissing(ids, viewer) ==
  LET present == SelectSeq(ids, LAMBDA c : cases[c].judge # ZeroAddr)
  IN [i \in 1..Len(present) |-> batchEntry(present[i], viewer)]

\* lines 640-668: an array of caseIds.length zero entries, then the loop
getBatchCaseDetails(ids, viewer) ==
  [i \in 1..Len(ids) |-> batchEntry(ids[i], viewer)]

\* ------------------------------------------------------------------- time
\* block.timestamp advances between transactions
Tick ==
  /\ now < MaxTime
  /\ now' = now + 1
  /\ UNCHANGED <<frontEnd, nextCaseId, cases, caseJurors, caseIds, acl, chainId, ballots, closedBy, last, events>>

Next ==
  \/ \E s \in Judges, m \in MetadataURIs, js \in JurorLists, p \in Periods : createCase(s, m, js, p)
  \/ \E s \in Addr, c \in CallIds, v \in VoteInputs : castVote(s, c, v)
  \/ \E s \in Addr, c \in CallIds, g \in BOOLEAN : castVoteDev(s, c, g)
  \/ \E s \in Addr, c \in CallIds : closeCase(s, c)
  \/ \E s \in Addr, c \in CallIds, a \in Grantees : grantResultAccess(s, c, a)
  \/ Tick

Spec == Init /\ [][Next]_vars

\* ------------------------------------------------- the registry, many cases
\* The same contract with several cases side by side and fewer callers and
\* inputs per case; block.timestamp stays at the deployment block.
MaxRegistryCases == 2
RegistryIds == 0..MaxRegistryCases
RegistryCallIds == 1..MaxRegistryCases
RegistryJudges == {"judge", "outsider"}
RegistryVoters == {"jurorA"}
RegistryClosers == {"judge"}
RegistryPeriods == {MaxPeriod}
RegistryJurorLists == {<<>>, <<"jurorA">>}
RegistryVoteInputs == {[val |-> 1, proofOk |-> TRUE]}

InitRegistry ==
  /\ nextCaseId = 0
  /\ cases = [c \in RegistryIds |-> EmptyCase]
  /\ caseJurors = [c \in RegistryIds |-> <<>>]
  /\ caseIds = <<>>
  /\ acl = {}
  /\ now = 0
  /\ chainId = HardhatChainId
  /\ ballots = [c \in RegistryIds |-> [a \in Addr |-> NoBallot]]
  /\ closedBy = [c \in RegistryIds |-> ZeroAddr]
  /\ last = [op |-> "deploy", caseId |-> 0, sender |-> ZeroAddr, err |-> "ok", jurorsLen |-> 0]
  /\ events = [c \in RegistryIds |-> <<>>]
  /\ instancePromise = 0 /\ promises = <<>> /\ sdk = SdkIdle

NextRegistry ==
  \/ \E s \in RegistryJudges, m \in MetadataURIs, js \in RegistryJurorLists, p \in RegistryPeriods :
       createCase(s, m, js, p)
  \/ \E s \in RegistryVoters, c \in RegistryCallIds, v \in RegistryVoteInputs : castVote(s, c, v)
  \/ \E s \in RegistryVoters, c \in RegistryCallIds : castVoteDev(s, c, FALSE)
  \/ \E s \in RegistryClosers, c \in RegistryCallIds : closeCase(s, c)
  \/ \E s \in RegistryClosers, c \in RegistryCallIds, a \in Grantees : grantResultAccess(s, c, a)

SpecRegistry == InitRegistry /\ [][NextRegistry]_vars

\* ------------------------------------------- one case, with fair scheduling
\* One case with two jurors; createCase is called only while its deadline
\* falls within the explored time, block.timestamp keeps advancing, and the
\* judge's closeCase transaction is eventually mined.
LiveJurorLists == {<<"jurorA", "jurorB">>}
LiveVoters == {"jurorA", "jurorB"}
LiveClosers == {"judge", "jurorA"}
LiveVoteInputs == {[val |-> 1, proofOk |-> TRUE]}

InitLive == Init /\ chainId = HardhatChainId

JudgeCloses(c) == \E s \in Judges : s = cases[c].judge /\ closeCase(s, c)

NextLive ==
  \/ \E s \in Judges, m \in MetadataURIs, js \in LiveJurorLists, p \in Periods :
       now + p <= MaxTime /\ createCase(s, m, js, p)
  \/ \E s \in LiveVoters, c \in CallIds, v \in LiveVoteInputs : castVote(s, c, v)
  \/ \E s \in LiveClosers, c \in CallIds : closeCase(s, c)
  \/ Tick

SpecLive ==
  /\ InitLive /\ [][NextLive]_vars
  /\ WF_vars(Tick)
  /\ \A c \in CallIds : WF_vars(JudgeCloses(c))

\* ------------------------------------------------ the web page's FHE instance
\* part_006: getFheInstance and its callers.  JavaScript runs each piece of
\* code to its next await without interruption, so an action is one such
\* piece.  A promise is named by its index in promises; "init" is the
\* promise of the inner async function (lines 22-37), "call" the promise an
\* invocation of the async function getFheInstance hands to its caller,
\* which settles as the promise it returned (line 39) does.
FheCallers == {"getFheInstance", "encryptVerdict", "decryptTallies"}
InitErrors == {"ImportError", "InitSDKError", "CreateInstanceError"}

ledger == <<nextCaseId, cases, caseJurors, caseIds, acl, now, chainId, ballots, closedBy, last, events>>

InitPromise == [kind |-> "init", state |-> "pending", value |-> "", follows |-> 0,
                by |-> "", during |-> ""]
\* during: where the initialization stood when the call was made
CallPromise(follows, by, during) ==
  [kind |-> "call", state |-> "pending", value |-> "", follows |-> follows,
   by |-> by, during |-> during]
Calls == {k \in 1..Len(promises) : promises[k].kind = "call"}

\* variant: the cached promise is not consulted, every call initializes
needsInitAlways(cached) == TRUE

\* line 21: if (!instancePromise)
needsInit(cached) == cached = 0

\* lines 20-39, up to the first await of the inner function (line 30)
getFheInstance(by) ==
  /\ Cardinality(Calls) < MaxCalls
  /\ IF needsInit(instancePromise)
     THEN LET id == Len(promises) + 1
          IN /\ instancePromise' = id
             /\ promises' = promises \o <<InitPromise, CallPromise(id, by, sdk.pc)>>
             /\ sdk' = [sdk EXCEPT !.pc = "import", !.promise = id, !.imports = @ + 1]
     ELSE /\ promises' = Append(promises, CallPromise(instancePromise, by, sdk.pc))
          /\ UNCHANGED <<instancePromise, sdk>>
  /\ UNCHANGED ledger

settled(ps, id, state, value) == [ps EXCEPT ![id].state = state, ![id].value = value]

\* variant: a failed initialization clears the cache, so the next call retries
initStepClearsCacheOnFailure(ok) ==
  /\ sdk.pc \in {"import", "initSDK", "createInstance"}
  /\ IF ~ok
     THEN /\ promises' = settled(promises, sdk.promise, "rejected",
                                  CASE sdk.pc = "import" -> "ImportError"
                                    [] sdk.pc = "initSDK" -> "InitSDKError"
                                    [] OTHER -> "CreateInstanceError")
          /\ sdk' = [sdk EXCEPT !.pc = "failed"]
          /\ instancePromise' = 0
     ELSE /\ CASE sdk.pc = "import" ->
                  /\ sdk' = [sdk EXCEPT !.pc = "initSDK", !.initSDK = @ + 1]
                  /\ UNCHANGED promises
            [] sdk.pc = "initSDK" ->
                  /\ sdk' = [sdk EXCEPT !.pc = "createInstance", !.createInstance = @ + 1]
                  /\ UNCHANGED promises
            [] OTHER ->
                  /\ sdk' = [sdk EXCEPT !.pc = "done"]
                  /\ promises' = settled(promises, sdk.promise, "fulfilled",
                                          <<"instance", sdk.createInstance>>)
          /\ UNCHANGED instancePromise
  /\ UNCHANGED ledger

\* lines 30-36: the inner function resumes after an await; the awaited
\* import, initSDK() or createInstance() has succeeded (ok) or thrown
initStep(ok) ==
  /\ sdk.pc \in {"import", "initSDK", "createInstance"}
  /\ IF ~ok
     THEN /\ promises' = settled(promises, sdk.promise, "rejected",
                                  CASE sdk.pc = "import" -> "ImportError"
                                    [] sdk.pc = "initSDK" -> "InitSDKError"
                                    [] OTHER -> "CreateInstanceError")
          /\ sdk' = [sdk EXCEPT !.pc = "failed"]
     ELSE CASE sdk.pc = "import" ->
                  /\ sdk' = [sdk EXCEPT !.pc = "initSDK", !.initSDK = @ + 1]
                  /\ UNCHANGED promises
            [] sdk.pc = "initSDK" ->
                  /\ sdk' = [sdk EXCEPT !.pc = "createInstance", !.createInstance = @ + 1]
                  /\ UNCHANGED promises
            [] OTHER ->
                  /\ sdk' = [sdk EXCEPT !.pc = "done"]
                  /\ promises' = settled(promises, sdk.promise, "fulfilled",
                                          <<"instance", sdk.createInstance>>)
  /\ UNCHANGED <<instancePromise, ledger>>

\* line 39: the promise handed to a caller settles as the returned one did
adopt(k) ==
  /\ promises[k].kind = "call" /\ promises[k].state = "pending"
  /\ promises[promises[k].follows].state # "pending"
  /\ promises' = settled(promises, k, promises[promises[k].follows].state,
                          promises[promises[k].follows].value)
  /\ UNCHANGED <<instancePromise, sdk, ledger>>

\* lines 65, 76-79 and 95: what encryptVerdict and decryptTallies make of the
\* promise they await: an error is passed on as it is (encryptVerdict logs
\* and rethrows it), an instance is used
callerOutcome(p) ==
  IF p.state = "rejected" THEN [state |-> "rejected", value |-> p.value]
  ELSE IF p.state = "fulfilled" THEN [state |-> "running", value |-> p.value]
  ELSE [state |-> "waiting", value |-> ""]

InitFhe == Init /\ chainId = SepoliaChainId

NextFhe ==
  \/ \E by \in FheCallers : getFheInstance(by)
  \/ \E ok \in BOOLEAN : initStep(ok)
  \/ \E k \in 1..Len(promises) : adopt(k)

SpecFhe == InitFhe /\ [][NextFhe]_vars

\* every step but Tick is one transaction, described by last'
CallStep == now' = now
Exists(c) == cases[c].judge # ZeroAddr
IsOpenAt(data, t) == data.judge # ZeroAddr /\ ~data.isClosed /\ t < data.deadline
Voters(c) == {a \in Addr : ballots[c][a].path # "none"}
VotedVia(c, path, v) == {a \in Addr : ballots[c][a] = [path |-> path, val |-> v]}
Allowed(id, account) == <<id, account>> \in acl

\* C1: for every case, in every reachable state, votesCast <= jurorCount.
C1_VotesWithinJurorCount ==
  \A c \in CaseIdSpace : cases[c].votesCast <= cases[c].jurorCount

\* a case all of whose two listed jurors have voted
C1_Witness ==
  \E c \in CaseIdSpace :
    cases[c].jurorCount = 2 /\ cases[c].votesCast = 2 /\ Cardinality(Voters(c)) = 2

\* C2: once closeCase has succeeded for a case, its closed flag is true in
\* every later state, and every later castVote on it fails with VotingClosed,
\* whatever the caller and the time.
C2_ClosedIsFinal ==
  \A c \in CaseIdSpace :
    closedBy[c] # ZeroAddr =>
      /\ cases[c].isClosed
      /\ \A s \in Addr, t \in 0..MaxTime : castVoteChecks(cases[c], s, t) = "VotingClosed"
      /\ (last.op = "castVote" /\ last.caseId = c) => last.err = "VotingClosed"

\* a closed case, before its deadline, on which a castVote has just failed
C2_Witness ==
  \E c \in CaseIdSpace :
    /\ closedBy[c] # ZeroAddr
    /\ now < cases[c].deadline
    /\ last.op = "castVote" /\ last.caseId = c /\ last.err = "VotingClosed"

\* C3: a juror's first castVote on an open case succeeds (given a valid
\* proof) and has exactly one vote's effect on votesCast and on both tallies;
\* a second castVote by the same juror while voting is still open fails with
\* AlreadyVoted and changes nothing.
C3_DoubleVote ==
  [][\A c \in CaseIdSpace, s \in Addr :
       (/\ CallStep
        /\ last'.op = "castVote" /\ last'.caseId = c /\ last'.sender = s
        /\ IsOpenAt(cases[c], now) /\ cases[c].isJuror[s])
       => IF ballots[c][s].path = "none"
          THEN /\ last'.err \in {"ok", "InvalidProof"}
               /\ last'.err = "ok" =>
                    LET v == U32(ballots'[c][s].val)
                    IN /\ cases'[c].votesCast = cases[c].votesCast + 1
                       /\ Decrypt(cases'[c].encryptedGuilty)
                            = Add32(Decrypt(cases[c].encryptedGuilty), v)
                       /\ Decrypt(cases'[c].encryptedNotGuilty)
                            = Add32(Decrypt(cases[c].encryptedNotGuilty), Sub32(U32(1), v))
          ELSE /\ last'.err = "AlreadyVoted"
               /\ cases' = cases /\ ballots' = ballots /\ acl' = acl
    ]_vars

\* a juror whose castVote succeeded has called castVote again and was refused
C3_Witness ==
  /\ last.op = "castVote" /\ last.err = "AlreadyVoted"
  /\ ballots[last.caseId][last.sender].path = "castVote"
  /\ cases[last.caseId].votesCast = 1

\* C4: the encrypted path of castVote, run for a juror whose encrypted
\* has-voted flag is already true, leaves both tallies at their values, for
\* every submitted vote.
C4_FailClosed ==
  \A c \in CaseIdSpace, s \in Addr, input \in VoteInputs :
    (Exists(c) /\ cases[c].encryptedHasVoted[s].val = TRUE) =>
      LET after == castVoteTally(cases[c], s, input)
      IN /\ Decrypt(after.encryptedGuilty) = Decrypt(cases[c].encryptedGuilty)
         /\ Decrypt(after.encryptedNotGuilty) = Decrypt(cases[c].encryptedNotGuilty)

\* C5 (as stated): castVote by an address outside the juror list of an
\* existing case always fails with NotJuror, regardless of timing.
C5_AlwaysNotJuror ==
  (/\ last.op = "castVote"
   /\ Exists(last.caseId)
   /\ ~cases[last.caseId].isJuror[last.sender])
  => last.err = "NotJuror"

\* C5 (amended): castVote by an address outside the juror list of an existing
\* case never succeeds; it fails with NotJuror while the case is open (not
\* closed, before the deadline) and with VotingClosed otherwise.
C5_NonJurorRejected ==
  [][\A c \in CaseIdSpace, s \in Addr :
       (/\ CallStep
        /\ last'.op = "castVote" /\ last'.caseId = c /\ last'.sender = s
        /\ Exists(c) /\ ~cases[c].isJuror[s])
       => /\ last'.err = IF IsOpenAt(cases[c], now) THEN "NotJuror" ELSE "VotingClosed"
          /\ cases' = cases /\ ballots' = ballots /\ acl' = acl
    ]_vars

\* an outsider's castVote on an open case has just failed with NotJuror
C5_Witness ==
  /\ last.op = "castVote" /\ last.err = "NotJuror" /\ last.sender = "outsider"
  /\ IsOpenAt(cases[last.caseId], now)

\* C6: for an existing, not yet closed case, closeCase by the judge fails with
\* VotingActive exactly when the time is before the deadline and
\* votesCast < jurorCount, and succeeds otherwise.
C6_ClosureGating ==
  [][\A c \in CaseIdSpace :
       (/\ CallStep
        /\ last'.op = "closeCase" /\ last'.caseId = c
        /\ Exists(c) /\ ~cases[c].isClosed
        /\ last'.sender = cases[c].judge)
       => IF now < cases[c].deadline /\ cases[c].votesCast < cases[c].jurorCount
          THEN last'.err = "VotingActive" /\ ~cases'[c].isClosed
          ELSE last'.err = "ok" /\ cases'[c].isClosed
    ]_vars

\* the judge has closed a case before its deadline, all jurors having voted
C6_Witness ==
  \E c \in CaseIdSpace :
    /\ last.op = "closeCase" /\ last.caseId = c /\ last.err = "ok"
    /\ last.sender = cases[c].judge
    /\ now < cases[c].deadline
    /\ cases[c].votesCast = cases[c].jurorCount

\* C7: when every vote of a case was cast through castVote with value 1 or 0,
\* after closeCase the two handles returned by getEncryptedTallies decrypt
\* (by the judge, who holds permission on them) to the number of jurors who
\* voted 1 and the number who voted 0.
C7_TalliesCountVotes ==
  \A c \in CaseIdSpace :
    (/\ closedBy[c] # ZeroAddr
     /\ \A a \in Voters(c) : ballots[c][a].path = "castVote" /\ ballots[c][a].val \in {0, 1})
    => LET r == getEncryptedTallies(c)
       IN /\ r.err = "ok"
          /\ Allowed(r.guilty.id, cases[c].judge)
          /\ Allowed(r.notGuilty.id, cases[c].judge)
          /\ Decrypt(r.guilty) = U32(Cardinality(VotedVia(c, "castVote", 1)))
          /\ Decrypt(r.notGuilty) = U32(Cardinality(VotedVia(c, "castVote", 0)))

\* a closed case with one guilty and one not-guilty vote, both through castVote
C7_Witness ==
  \E c \in CaseIdSpace :
    /\ closedBy[c] # ZeroAddr
    /\ Cardinality(VotedVia(c, "castVote", 1)) = 1
    /\ Cardinality(VotedVia(c, "castVote", 0)) = 1
    /\ Cardinality(Voters(c)) = 2

CanDeriveVote(account, c) ==
  \E slot \in {"guilty", "notGuilty"}, k \in 0..Cardinality(Addr) :
    /\ Allowed(<<c, slot, ZeroAddr, k>>, account)
    /\ Allowed(<<c, slot, ZeroAddr, k + 1>>, account)

C9_NoVoteVisibleWhileOpen ==
  \A c \in CaseIdSpace, account \in Addr :
    (Exists(c) /\ ~cases[c].isClosed) => ~CanDeriveVote(account, c)

\* C10: on an existing case, getEncryptedTallies fails with VotingActive in
\* every state in which the case is not closed, and returns the two stored
\* tally handles in every state after closeCase has succeeded.
C10_TalliesOnlyAfterClosure ==
  \A c \in CaseIdSpace :
    Exists(c) =>
      LET r == getEncryptedTallies(c)
      IN /\ ~cases[c].isClosed => r.err = "VotingActive"
         /\ closedBy[c] = ZeroAddr => r.err = "VotingActive"
         /\ closedBy[c] # ZeroAddr =>
              /\ r.err = "ok"
              /\ r.guilty = cases[c].encryptedGuilty
              /\ r.notGuilty = cases[c].encryptedNotGuilty
              /\ r.guilty # NullHandle /\ r.notGuilty # NullHandle

\* a closed case with votes, whose tally handles are returned
C10_Witness ==
  \E c \in CaseIdSpace :
    /\ closedBy[c] # ZeroAddr
    /\ cases[c].votesCast > 0
    /\ getEncryptedTallies(c).err = "ok"

\* the state the contract stores, apart from the recorded outcome and the clock
Stored == <<nextCaseId, cases, caseJurors, caseIds, acl, ballots, closedBy>>

\* C11: a call to createCase, castVote, castVoteDev, closeCase or
\* grantResultAccess that fails (any error, a proof-verification failure
\* included) leaves every case record, juror flag, tally, permission grant,
\* the ID counter and the case-ID list as they were before the call.
C11_FailureIsAtomic ==
  [][(CallStep /\ last'.err # "ok") => UNCHANGED Stored]_vars

\* a castVote by a juror who has not voted has just failed on its proof, on a
\* case that already holds another juror's vote
C11_Witness ==
  /\ last.op = "castVote" /\ last.err = "InvalidProof"
  /\ cases[last.caseId].votesCast = 1
  /\ ballots[last.caseId][last.sender].path = "none"

\* C12: after closeCase has succeeded, in every later state every address of
\* the case's juror list and the judge hold permission on both handles that
\* getEncryptedTallies returns, and the tallies and votesCast of the closed
\* case no longer change.
C12_ClosurePermissionsStay ==
  [][\A c \in CaseIdSpace :
       /\ closedBy'[c] # ZeroAddr =>
            LET r == getEncryptedTallies(c)'
            IN /\ r.err = "ok"
               /\ \A a \in Range(caseJurors'[c]) \cup {cases'[c].judge} :
                    /\ <<r.guilty.id, a>> \in acl'
                    /\ <<r.notGuilty.id, a>> \in acl'
       /\ closedBy[c] # ZeroAddr =>
            /\ cases'[c].encryptedGuilty = cases[c].encryptedGuilty
            /\ cases'[c].encryptedNotGuilty = cases[c].encryptedNotGuilty
            /\ cases'[c].votesCast = cases[c].votesCast
    ]_vars

\* a closed case with two votes: jurorB, who is not the judge, holds
\* permission on both current tally handles
C12_Witness ==
  \E c \in CaseIdSpace :
    /\ closedBy[c] # ZeroAddr
    /\ cases[c].votesCast = 2
    /\ Allowed(cases[c].encryptedGuilty.id, "jurorB")
    /\ Allowed(cases[c].encryptedNotGuilty.id, "jurorB")

\* C13: a case is closed only if a closeCase call by its judge succeeded
\* earlier; closeCase on an existing, not closed case by any other caller
\* fails with Unauthorized and leaves the case open.
C13_OnlyJudgeCloses ==
  [][\A c \in CaseIdSpace :
       /\ cases'[c].isClosed => (closedBy'[c] = cases'[c].judge /\ closedBy'[c] # ZeroAddr)
       /\ (/\ CallStep
           /\ last'.op = "closeCase" /\ last'.caseId = c
           /\ Exists(c) /\ ~cases[c].isClosed
           /\ last'.sender # cases[c].judge)
          => last'.err = "Unauthorized" /\ ~cases'[c].isClosed
    ]_vars

\* a juror's closeCase has just been refused on a case past its deadline
C13_Witness ==
  \E c \in CaseIdSpace :
    /\ last.op = "closeCase" /\ last.caseId = c /\ last.err = "Unauthorized"
    /\ last.sender = "jurorA" /\ cases[c].isJuror["jurorA"]
    /\ now >= cases[c].deadline /\ ~cases[c].isClosed

\* C14: on an existing case that is not closed grantResultAccess fails with
\* VotingActive for every caller; on a closed case it fails with Unauthorized
\* for every caller but the judge; called by the judge it grants the account
\* permission on both tallies and changes nothing else.
C14_GrantOnlyAfterClosure ==
  [][\A c \in CaseIdSpace :
       (CallStep /\ last'.op = "grantResultAccess" /\ last'.caseId = c /\ Exists(c))
       => IF ~cases[c].isClosed
          THEN last'.err = "VotingActive" /\ acl' = acl
          ELSE IF last'.sender # cases[c].judge
          THEN last'.err = "Unauthorized" /\ acl' = acl
          ELSE /\ last'.err = "ok"
               /\ acl \subseteq acl'
               /\ \E account \in Addr :
                    acl' = acl \cup {<<cases[c].encryptedGuilty.id, account>>,
                                     <<cases[c].encryptedNotGuilty.id, account>>}
               /\ cases' = cases /\ caseJurors' = caseJurors
    ]_vars

\* the judge has granted the outsider access to a closed case
C14_Witness ==
  \E c \in CaseIdSpace :
    /\ last.op = "grantResultAccess" /\ last.caseId = c /\ last.err = "ok"
    /\ cases[c].isClosed
    /\ Allowed(cases[c].encryptedGuilty.id, "outsider")
    /\ Allowed(cases[c].encryptedNotGuilty.id, "outsider")

\* C15: the k-th successful createCase returns ID k, no ID is returned twice,
\* and getCaseIds is <<1, ..., n>> in creation order, every earlier result a
\* prefix of every later one.
C15_SequentialIds ==
  [][/\ getCaseIds' = [i \in 1..nextCaseId' |-> i]
     /\ Len(getCaseIds) <= Len(getCaseIds')
     /\ SubSeq(getCaseIds', 1, Len(getCaseIds)) = getCaseIds
     /\ (CallStep /\ last'.op = "createCase" /\ last'.err = "ok")
        => /\ last'.caseId = Len(getCaseIds) + 1
           /\ last'.caseId \notin Range(getCaseIds)
           /\ ~Exists(last'.caseId)
           /\ cases'[last'.caseId].judge = last'.sender
           /\ getCaseIds' = Append(getCaseIds, last'.caseId)
    ]_vars

\* the second createCase has just returned 2, case 1 being closed by then
C15_Witness ==
  /\ last.op = "createCase" /\ last.err = "ok" /\ last.caseId = 2
  /\ getCaseIds = <<1, 2>> /\ nextCaseId = 2
  /\ cases[1].isClosed

\* C16: once a case is created, its judge, deadline, metadata reference,
\* jurorCount, juror list and set of authorized jurors are left unchanged by
\* every later operation, createCase of other cases included.
C16_CaseHeaderIsFixed ==
  [][\A c \in DOMAIN cases :
       Exists(c) =>
         /\ cases'[c].judge = cases[c].judge
         /\ cases'[c].deadline = cases[c].deadline
         /\ cases'[c].metadataURI = cases[c].metadataURI
         /\ cases'[c].jurorCount = cases[c].jurorCount
         /\ cases'[c].isJuror = cases[c].isJuror
         /\ caseJurors'[c] = caseJurors[c]
    ]_vars

\* case 1 has been voted on and closed, and another judge has then created
\* case 2
C16_Witness ==
  /\ last.op = "createCase" /\ last.err = "ok" /\ last.caseId = 2
  /\ cases[1].isClosed /\ cases[1].votesCast = 1
  /\ cases[1].judge = "judge" /\ cases[2].judge = "outsider"
  /\ caseJurors[1] = <<"jurorA">>

C18_AllVotedCloses ==
  \A c \in CaseIdSpace :
    (/\ last.op = "closeCase" /\ last.caseId = c
     /\ Exists(c) /\ last.sender = cases[c].judge
     /\ \A a \in Addr : cases[c].isJuror[a] => ballots[c][a].path # "none")
    => last.err \in {"ok", "CaseClosedAlready"}

\* C19: castVote reports the first precondition that fails, in the order
\* CaseNotFound, VotingClosed (closed or time >= deadline), NotJuror,
\* AlreadyVoted.
C19_CastVoteCheckOrder ==
  [][\A c \in CallIds, s \in Addr :
       (CallStep /\ last'.op = "castVote" /\ last'.caseId = c /\ last'.sender = s)
       => last'.err \in
            IF ~Exists(c) THEN {"CaseNotFound"}
            ELSE IF cases[c].isClosed \/ now >= cases[c].deadline THEN {"VotingClosed"}
            ELSE IF s \notin Range(caseJurors[c]) THEN {"NotJuror"}
            ELSE IF ballots[c][s].path # "none" THEN {"AlreadyVoted"}
            ELSE {"ok", "InvalidProof"}
    ]_vars

\* a juror who has voted calls castVote after the deadline, on a case that
\* is not closed, and gets VotingClosed
C19_Witness ==
  \E c \in CallIds :
    /\ last.op = "castVote" /\ last.caseId = c /\ last.err = "VotingClosed"
    /\ ballots[c][last.sender].path # "none"
    /\ ~cases[c].isClosed /\ now >= cases[c].deadline

\* C20: closeCase reports the first precondition that fails, in the order
\* CaseNotFound, CaseClosedAlready, Unauthorized, VotingActive.
C20_CloseCaseCheckOrder ==
  [][\A c \in CallIds, s \in Addr :
       (CallStep /\ last'.op = "closeCase" /\ last'.caseId = c /\ last'.sender = s)
       => last'.err =
            IF ~Exists(c) THEN "CaseNotFound"
            ELSE IF closedBy[c] # ZeroAddr THEN "CaseClosedAlready"
            ELSE IF s # cases[c].judge THEN "Unauthorized"
            ELSE IF now < cases[c].deadline /\ cases[c].votesCast < cases[c].jurorCount
            THEN "VotingActive"
            ELSE "ok"
    ]_vars

\* a caller who is not the judge has just tried to close a closed case
C20_Witness ==
  \E c \in CallIds :
    /\ last.op = "closeCase" /\ last.caseId = c /\ last.err = "CaseClosedAlready"
    /\ last.sender # cases[c].judge
    /\ closedBy[c] # ZeroAddr

\* C21: the amount a successful castVote adds to the guilty tally is 0 or 1
\* and the amount added to the not-guilty tally is its complement, for every
\* input whose proof verifies; hence neither tally ever exceeds votesCast.
C21_SanitizedVoteIsBit ==
  \A c \in CaseIdSpace :
    Exists(c) =>
      /\ Decrypt(cases[c].encryptedGuilty)[1] = 0
      /\ Decrypt(cases[c].encryptedGuilty)[2] <= cases[c].votesCast
      /\ Decrypt(cases[c].encryptedNotGuilty)[1] = 0
      /\ Decrypt(cases[c].encryptedNotGuilty)[2] <= cases[c].votesCast
      /\ \A s \in Addr, input \in VoteInputs :
           (input.proofOk /\ castVoteChecks(cases[c], s, now) = "ok") =>
             LET after == castVoteTally(cases[c], s, input)
                 g == Decrypt(cases[c].encryptedGuilty)
                 n == Decrypt(cases[c].encryptedNotGuilty)
             IN \/ /\ Decrypt(after.encryptedGuilty) = Add32(g, U32(1))
                   /\ Decrypt(after.encryptedNotGuilty) = n
                \/ /\ Decrypt(after.encryptedGuilty) = g
                   /\ Decrypt(after.encryptedNotGuilty) = Add32(n, U32(1))

\* the chains on which castVoteDev is permitted
DevChains == {HardhatChainId, SepoliaChainId}
Bit(b) == IF b THEN 1 ELSE 0

\* C22: on a chain where castVoteDev is permitted it succeeds exactly when
\* castVote with a valid proof would, and otherwise fails with the same
\* error; on success votesCast and both has-voted flags change as in
\* castVote, and only the encrypted and the plaintext counter of the chosen
\* verdict grow, by 1.
C22_DevSameAsCastVote ==
  [][\A c \in CallIds, s \in Addr :
       /\ (CallStep /\ chainId \in DevChains
           /\ last'.op = "castVoteDev" /\ last'.caseId = c /\ last'.sender = s)
          => /\ last'.err = castVoteChecks(cases[c], s, now)
             /\ last'.err = "ok" =>
                  LET isGuilty == ballots'[c][s].val = 1
                      marked == castVoteMark(cases[c], c, s)
                  IN /\ cases'[c].votesCast = marked.votesCast
                     /\ cases'[c].plainHasVoted = marked.plainHasVoted
                     /\ cases'[c].encryptedHasVoted = marked.encryptedHasVoted
                     /\ Decrypt(cases'[c].encryptedGuilty)
                          = Add32(Decrypt(cases[c].encryptedGuilty), U32(Bit(isGuilty)))
                     /\ Decrypt(cases'[c].encryptedNotGuilty)
                          = Add32(Decrypt(cases[c].encryptedNotGuilty), U32(Bit(~isGuilty)))
                     /\ cases'[c].plainGuilty = cases[c].plainGuilty + Bit(isGuilty)
                     /\ cases'[c].plainNotGuilty = cases[c].plainNotGuilty + Bit(~isGuilty)
       /\ (CallStep /\ chainId \in DevChains
           /\ last'.op = "castVote" /\ last'.caseId = c /\ last'.sender = s
           /\ last'.err # "InvalidProof")
          => last'.err = castVoteDevChecks(cases[c], s, now, chainId)
    ]_vars

\* on Sepolia, a non-juror's castVoteDev after the deadline has just failed
\* with VotingClosed, on a case that holds a guilty vote made via castVoteDev
C22_Witness ==
  \E c \in CallIds :
    /\ chainId = SepoliaChainId
    /\ last.op = "castVoteDev" /\ last.caseId = c /\ last.err = "VotingClosed"
    /\ ~cases[c].isJuror[last.sender]
    /\ cases[c].plainGuilty = 1 /\ cases[c].votesCast = 1

\* the times a deadline can take
Times == 0..(MaxTime + MaxPeriod)

\* C23: for an open case at any time t, a vote is accepted only if
\* t < deadline and a closure with votesCast < jurorCount only if
\* t >= deadline; at t = deadline castVote fails with VotingClosed and
\* closeCase by the judge succeeds; at every time either the voting window is
\* open (castVote does not answer VotingClosed) or the judge can close, and
\* no vote is accepted at or after a time at which such a closure can succeed.
C23_DeadlineBoundary ==
  \A c \in CaseIdSpace :
    (Exists(c) /\ ~cases[c].isClosed) =>
      \A t \in Times :
        LET data == cases[c]
            close == closeCaseChecks(data, data.judge, t)
        IN /\ \A s \in Addr :
                /\ castVoteChecks(data, s, t) = "ok" => t < data.deadline
                /\ t = data.deadline => castVoteChecks(data, s, t) = "VotingClosed"
                /\ (castVoteChecks(data, s, t) = "ok" /\ data.votesCast < data.jurorCount)
                     => close = "VotingActive"
           /\ (data.votesCast < data.jurorCount /\ close = "ok") => t >= data.deadline
           /\ t = data.deadline => close = "ok"
           /\ close = "ok" \/ \A s \in Addr : castVoteChecks(data, s, t) # "VotingClosed"
           /\ \A t2 \in Times, s \in Addr :
                (/\ t2 <= t /\ data.votesCast < data.jurorCount
                 /\ closeCaseChecks(data, data.judge, t2) = "ok")
                => castVoteChecks(data, s, t) = "VotingClosed"
           /\ (last.op = "castVote" /\ last.caseId = c /\ last.err = "ok")
                => data.votesCast > 0

\* at the deadline itself, a juror who has not voted has just been refused
\* with VotingClosed, on a case that is not closed and lacks votes
C23_Witness ==
  \E c \in CallIds :
    /\ last.op = "castVote" /\ last.caseId = c /\ last.err = "VotingClosed"
    /\ now = cases[c].deadline /\ ~cases[c].isClosed
    /\ cases[c].isJuror[last.sender] /\ ballots[c][last.sender].path = "none"
    /\ cases[c].votesCast < cases[c].jurorCount
    /\ cases[c].deadline > 0

\* C25: in every reachable state the current handle of each case's guilty and
\* not-guilty tally carries the contract's own permission and the judge's,
\* and the current encrypted has-voted flag of every authorized juror carries
\* the contract's own permission.
C25_PermissionsFollowHandles ==
  \A c \in CaseIdSpace :
    Exists(c) =>
      /\ Allowed(cases[c].encryptedGuilty.id, This)
      /\ Allowed(cases[c].encryptedNotGuilty.id, This)
      /\ Allowed(cases[c].encryptedGuilty.id, cases[c].judge)
      /\ Allowed(cases[c].encryptedNotGuilty.id, cases[c].judge)
      /\ \A a \in Addr :
           cases[c].isJuror[a] => Allowed(cases[c].encryptedHasVoted[a].id, This)

\* both jurors have voted, one through castVote and one through castVoteDev,
\* so both tallies and both flags are at handles made after creation
C25_Witness ==
  \E c \in CaseIdSpace :
    /\ ballots[c]["jurorA"].path = "castVote" /\ ballots[c]["jurorA"].val = 1
    /\ ballots[c]["jurorB"].path = "castVoteDev" /\ ballots[c]["jurorB"].val = 0
    /\ cases[c].encryptedGuilty.id[4] > 0 /\ cases[c].encryptedNotGuilty.id[4] > 0

\* the number of VoteSubmitted(c, a) events in the log
VotesLogged(c, a) ==
  Cardinality({i \in 1..Len(events[c]) : events[c][i] = VoteSubmitted(c, a)})

\* C29: in every reachable state and for every case, votesCast is the number
\* of addresses a with hasVoted(case, a) true; hasVoted(case, a) is true
\* exactly when a has made one successful castVote or castVoteDev on the
\* case, and false for every address that is not an authorized juror.
C29_VotesCastCountsVoters ==
  \A c \in CaseIdSpace :
    Exists(c) =>
      /\ cases[c].votesCast = Cardinality({a \in Addr : hasVoted(c, a).value})
      /\ \A a \in Addr :
           /\ hasVoted(c, a).err = "ok"
           /\ hasVoted(c, a).value <=> a \in Voters(c)
           /\ VotesLogged(c, a) = IF hasVoted(c, a).value THEN 1 ELSE 0
           /\ ~cases[c].isJuror[a] => ~hasVoted(c, a).value

\* two jurors have voted, one by each path; the outsider has not
C29_Witness ==
  \E c \in CaseIdSpace :
    /\ cases[c].votesCast = 2
    /\ hasVoted(c, "jurorA").value /\ hasVoted(c, "jurorB").value
    /\ ballots[c]["jurorA"].path = "castVoteDev" /\ ballots[c]["jurorB"].path = "castVote"
    /\ ~hasVoted(c, "outsider").value

\* C30: in every reachable state and for every case, the decrypted guilty
\* tally plus the decrypted not-guilty tally is votesCast modulo 2^32, for
\* any mixture of castVote (any 32-bit input) and castVoteDev calls.
C30_TalliesSumToVotesCast ==
  \A c \in CaseIdSpace :
    Add32(Decrypt(cases[c].encryptedGuilty), Decrypt(cases[c].encryptedNotGuilty))
      = U32(cases[c].votesCast)

\* one vote through castVote with the input 2, which wraps the not-guilty
\* tally around, and one through castVoteDev
C30_Witness ==
  \E c \in CaseIdSpace :
    /\ cases[c].votesCast = 2
    /\ \E a, b \in Addr :
         /\ ballots[c][a] = [path |-> "castVote", val |-> 2]
         /\ ballots[c][b].path = "castVoteDev"
    /\ Decrypt(cases[c].encryptedNotGuilty)[1] = W16 - 1

\* C24: for every existing open case, once the time has reached the
\* deadline, closeCase by the judge succeeds whatever the number of votes;
\* with time advancing and the judge's call being made, every case is
\* eventually closed.
C24_EveryCaseCloses ==
  /\ [](\A c \in CallIds :
          (Exists(c) /\ ~cases[c].isClosed /\ now >= cases[c].deadline)
          => closeCaseChecks(cases[c], cases[c].judge, now) = "ok")
  /\ \A c \in CallIds : Exists(c) ~> cases[c].isClosed

\* the judge has closed, after the deadline, a case on which nobody voted
C24_Witness ==
  \E c \in CallIds :
    /\ cases[c].isClosed /\ closedBy[c] = cases[c].judge
    /\ cases[c].votesCast = 0 /\ cases[c].jurorCount = 2
    /\ cases[c].deadline > 0 /\ now >= cases[c].deadline

\* C26: getCase, getCaseJurors, hasVoted, getCaseFullDetails and
\* getEncryptedTallies fail with CaseNotFound exactly for the IDs that no
\* createCase has returned (0 and every ID above the number of cases
\* created), never for a created ID; getCaseIds always returns the list.
C26_NotFoundExactlyForUnusedIds ==
  \A id \in DOMAIN cases :
    LET unused == id \notin Range(getCaseIds)
    IN /\ unused <=> (id = 0 \/ id > Len(getCaseIds))
       /\ getCase(id).err = "CaseNotFound" <=> unused
       /\ getCaseJurors(id).err = "CaseNotFound" <=> unused
       /\ getEncryptedTallies(id).err = "CaseNotFound" <=> unused
       /\ \A a \in Addr :
            /\ hasVoted(id, a).err = "CaseNotFound" <=> unused
            /\ getCaseFullDetails(id, a).err = "CaseNotFound" <=> unused
       /\ ~unused =>
            /\ getCase(id).err = "ok" /\ getCaseJurors(id).err = "ok"
            /\ \A a \in Addr :
                 hasVoted(id, a).err = "ok" /\ getCaseFullDetails(id, a).err = "ok"

\* one case created: IDs 0 and 2 are not found, ID 1 is, and its juror voted
C26_Witness ==
  /\ getCaseIds = <<1>>
  /\ getCase(2).err = "CaseNotFound" /\ hasVoted(0, "jurorA").err = "CaseNotFound"
  /\ getCase(1).err = "ok"
  /\ hasVoted(1, "jurorA") = [err |-> "ok", value |-> TRUE]

\* the ID lists handed to getBatchCaseDetails, and the viewers
BatchInputs ==
  {<<>>} \cup {<<a>> : a \in DOMAIN cases} \cup {<<a, b>> : a, b \in DOMAIN cases}
Viewers == {"jurorA", "judge"}

\* C27: getCaseFullDetails(id, viewer) returns the fields of getCase(id), the
\* list of getCaseJurors(id) and hasVoted(id, viewer); getBatchCaseDetails
\* returns one entry per input ID in input order, each equal to
\* getCaseFullDetails of that ID, and an all-zero entry (no failure) for an ID
\* that does not exist.
C27_BatchAddsNothing ==
  /\ \A id \in DOMAIN cases, viewer \in Viewers :
       LET full == getCaseFullDetails(id, viewer)
       IN /\ full.err = getCase(id).err
          /\ full.err = getCaseJurors(id).err
          /\ full.err = hasVoted(id, viewer).err
          /\ full.err = "ok" =>
               /\ \A f \in DOMAIN ZeroSummary : full.value[f] = getCase(id).value[f]
               /\ full.value.jurors = getCaseJurors(id).value
               /\ full.value.hasVoted = hasVoted(id, viewer).value
               /\ DOMAIN full.value = DOMAIN ZeroSummary \cup {"jurors", "hasVoted"}
  /\ \A ids \in BatchInputs, viewer \in Viewers :
       LET all == getBatchCaseDetails(ids, viewer)
       IN /\ DOMAIN all = 1..Len(ids)
          /\ \A i \in 1..Len(ids) :
               LET full == getCaseFullDetails(ids[i], viewer)
               IN all[i] = IF full.err = "ok" THEN full.value ELSE ZeroDetails

\* a batch naming an ID that does not exist and then case 1, on which the
\* viewer has voted
C27_Witness ==
  LET all == getBatchCaseDetails(<<2, 1>>, "jurorA")
  IN /\ getCaseIds = <<1>>
     /\ all[1] = ZeroDetails
     /\ all[2].caseId = 1 /\ all[2].hasVoted /\ all[2].jurors = <<"jurorA">>
     /\ all[2].votesCast = 1

\* the order of one case's events
LogOrdered(c) ==
  LET log == events[c]
  IN \A i \in 1..Len(log) :
       /\ log[i].caseId = c
       /\ log[i].name = "CaseCreated" => i = 1 /\ log[i].who = cases[c].judge
       /\ log[i].name = "VoteSubmitted" =>
            /\ \E j \in 1..(i - 1) : log[j].name = "CaseCreated"
            /\ cases[c].isJuror[log[i].who]
            /\ \A j \in 1..Len(log) : j # i => log[j] # log[i]
       /\ log[i].name = "CaseClosed" =>
            /\ \A j \in 1..Len(log) : log[j].name = "CaseClosed" => j = i
            /\ \A j \in 1..Len(log) : log[j].name = "VoteSubmitted" => j < i
       /\ log[i].name = "ResultAccessGranted" =>
            \E j \in 1..(i - 1) : log[j].name = "CaseClosed"

\* C28: in the event log of a case, CaseCreated(c, judge) precedes every
\* VoteSubmitted(c, _); VoteSubmitted(c, j) occurs at most once per juror and
\* only for authorized jurors; CaseClosed(c) occurs at most once and after
\* every VoteSubmitted(c, _); ResultAccessGranted(c, _) occurs only after
\* CaseClosed(c); a failed call emits no event and a successful one emits one.
C28_EventOrder ==
  [][/\ \A c \in DOMAIN events : LogOrdered(c)'
     /\ (CallStep /\ last'.err # "ok") => events' = events
     /\ (CallStep /\ last'.err = "ok") =>
          \E c \in DOMAIN events :
            /\ Len(events'[c]) = Len(events[c]) + 1
            /\ SubSeq(events'[c], 1, Len(events[c])) = events[c]
            /\ \A d \in DOMAIN events \ {c} : events'[d] = events[d]
    ]_vars

\* a full life of a case is in the log, and a call has just failed
C28_Witness ==
  /\ events[1] = <<CaseCreated(1, "judge"), VoteSubmitted(1, "jurorB"),
                   VoteSubmitted(1, "jurorA"), CaseClosed(1),
                   ResultAccessGranted(1, "outsider")>>
  /\ last.err # "ok" /\ last.op = "castVoteDev"

\* C31: in every reachable state and for every authorized juror of every
\* case, the value of the encrypted has-voted flag equals the plaintext
\* has-voted flag: both false from createCase until the juror's one
\* successful vote, both true afterwards.
C31_FlagsAgree ==
  \A c \in CaseIdSpace, a \in Addr :
    (Exists(c) /\ cases[c].isJuror[a]) =>
      /\ cases[c].encryptedHasVoted[a].val = cases[c].plainHasVoted[a]
      /\ cases[c].plainHasVoted[a] <=> a \in Voters(c)
      /\ cases[c].plainHasVoted[a] <=> VotesLogged(c, a) = 1

\* of two jurors one has voted and the other has not
C31_Witness ==
  \E c \in CaseIdSpace :
    /\ cases[c].isJuror["jurorA"] /\ cases[c].isJuror["jurorB"]
    /\ cases[c].encryptedHasVoted["jurorA"].val /\ cases[c].plainHasVoted["jurorA"]
    /\ ~cases[c].encryptedHasVoted["jurorB"].val /\ ~cases[c].plainHasVoted["jurorB"]

\* C32: in every state in which a case is not closed, the accounts holding
\* permission on the case's current tally handles are the contract itself and
\* the judge only.
C32_OpenTalliesJudgeOnly ==
  \A c \in CaseIdSpace :
    (Exists(c) /\ ~cases[c].isClosed) =>
      \A account \in Addr \cup {This} :
        (\/ Allowed(cases[c].encryptedGuilty.id, account)
         \/ Allowed(cases[c].encryptedNotGuilty.id, account))
        => account \in {This, cases[c].judge}

\* an open case past its deadline with both votes in: the judge holds
\* permission on the current handles, the jurors do not
C32_Witness ==
  \E c \in CaseIdSpace :
    /\ Exists(c) /\ ~cases[c].isClosed /\ cases[c].votesCast = 2
    /\ now >= cases[c].deadline
    /\ Allowed(cases[c].encryptedGuilty.id, cases[c].judge)
    /\ ~Allowed(cases[c].encryptedGuilty.id, "jurorA")
    /\ ~Allowed(cases[c].encryptedNotGuilty.id, "jurorB")

\* a vote through either function, and what it does to a case record
Votes ==
  {[path |-> "castVote", input |-> i, isGuilty |-> FALSE] : i \in {v \in VoteInputs : v.proofOk}}
    \cup {[path |-> "castVoteDev", input |-> [val |-> 0, proofOk |-> TRUE], isGuilty |-> g] :
            g \in BOOLEAN}
VoteAccepted(data, s, v) ==
  IF v.path = "castVote"
  THEN castVoteChecks(data, s, now) = "ok"
  ELSE castVoteDevChecks(data, s, now, chainId) = "ok"
VoteApplied(data, c, s, v) ==
  IF v.path = "castVote"
  THEN castVoteMark(castVoteTally(data, s, v.input), c, s)
  ELSE castVoteMark(castVoteDevTally(data, v.isGuilty), c, s)

\* C33: for a case and two votes by distinct jurors that are both accepted,
\* either order of the two transactions is accepted and ends with the same
\* votesCast, the same has-voted flags and the same decrypted tallies.
C33_VoteOrderIrrelevant ==
  \A c \in CallIds :
    IsOpenAt(cases[c], now) =>
      \A s1, s2 \in Addr :
        (s1 # s2 /\ castVoteChecks(cases[c], s1, now) = "ok"
                 /\ castVoteChecks(cases[c], s2, now) = "ok") =>
          \A v1, v2 \in Votes :
            (VoteAccepted(cases[c], s1, v1) /\ VoteAccepted(cases[c], s2, v2)) =>
              LET first == VoteApplied(cases[c], c, s1, v1)
                  other == VoteApplied(cases[c], c, s2, v2)
                  a == VoteApplied(first, c, s2, v2)
                  b == VoteApplied(other, c, s1, v1)
              IN /\ VoteAccepted(first, s2, v2) /\ VoteAccepted(other, s1, v1)
                 /\ a.votesCast = b.votesCast
                 /\ a.plainHasVoted = b.plainHasVoted
                 /\ \A x \in Addr : a.encryptedHasVoted[x].val = b.encryptedHasVoted[x].val
                 /\ Decrypt(a.encryptedGuilty) = Decrypt(b.encryptedGuilty)
                 /\ Decrypt(a.encryptedNotGuilty) = Decrypt(b.encryptedNotGuilty)
                 /\ a.plainGuilty = b.plainGuilty /\ a.plainNotGuilty = b.plainNotGuilty

\* jurorB's castVoteDev came before jurorA's castVote of another verdict
C33_Witness ==
  /\ events[1] = <<CaseCreated(1, "judge"), VoteSubmitted(1, "jurorB"),
                   VoteSubmitted(1, "jurorA")>>
  /\ ballots[1]["jurorB"] = [path |-> "castVoteDev", val |-> 0]
  /\ ballots[1]["jurorA"] = [path |-> "castVote", val |-> 1]
  /\ Decrypt(cases[1].encryptedGuilty) = U32(1)
  /\ Decrypt(cases[1].encryptedNotGuilty) = U32(1)

\* the permissions on the handles of one case
CaseAcl(c) == {p \in acl : p[1][1] = c}

\* C34: every operation that names case c (castVote, castVoteDev, closeCase,
\* grantResultAccess), whether it succeeds or fails, leaves the record,
\* tallies, juror flags and permissions of every other case unchanged, and
\* createCase leaves every existing case unchanged.
C34_CaseIsolation ==
  [][\A d \in DOMAIN cases :
       (CallStep /\ (IF last'.op = "createCase" THEN Exists(d) ELSE last'.caseId # d))
       => /\ cases'[d] = cases[d]
          /\ caseJurors'[d] = caseJurors[d]
          /\ CaseAcl(d)' = CaseAcl(d)
          /\ events'[d] = events[d]
    ]_vars

\* case 1 is closed with a vote in it, and the juror has just voted in case 2
C34_Witness ==
  /\ cases[1].isClosed /\ cases[1].votesCast = 1
  /\ last.op = "castVote" /\ last.caseId = 2 /\ last.err = "ok"
  /\ cases[2].votesCast = 1 /\ ~cases[2].isClosed

\* C35: on every chain on which castVoteDev is accepted getPlainTallies is
\* accepted too, so the plaintext counters written by castVoteDev can be
\* read back on the chain where they were written.
C35_PlainTalliesReadable ==
  \A c \in CaseIdSpace :
    /\ (Exists(c) /\ castVoteDevChecks(cases[c], "judge", now, chainId) # "Unauthorized")
         => getPlainTallies(c, chainId).err = "ok"
    /\ (\E a \in Addr : ballots[c][a].path = "castVoteDev")
         => /\ getPlainTallies(c, chainId).err = "ok"
            /\ getPlainTallies(c, chainId).guilty = cases[c].plainGuilty
            /\ getPlainTallies(c, chainId).notGuilty = cases[c].plainNotGuilty

\* C36: in every reachable state plainGuilty + plainNotGuilty is the number
\* of votes cast through castVoteDev (hence <= votesCast); when every vote
\* was cast through castVoteDev the plaintext counters equal the decrypted
\* tallies; castVote never changes the plaintext counters.
C36_PlainCountersShadowDevVotes ==
  \A c \in CaseIdSpace :
    LET dev == {a \in Addr : ballots[c][a].path = "castVoteDev"}
    IN /\ cases[c].plainGuilty = Cardinality(VotedVia(c, "castVoteDev", 1))
       /\ cases[c].plainNotGuilty = Cardinality(VotedVia(c, "castVoteDev", 0))
       /\ cases[c].plainGuilty + cases[c].plainNotGuilty = Cardinality(dev)
       /\ Cardinality(dev) <= cases[c].votesCast
       /\ dev = Voters(c) =>
            /\ U32(cases[c].plainGuilty) = Decrypt(cases[c].encryptedGuilty)
            /\ U32(cases[c].plainNotGuilty) = Decrypt(cases[c].encryptedNotGuilty)

\* one vote through each function: the plaintext counters hold the
\* castVoteDev vote only
C36_Witness ==
  \E c \in CaseIdSpace :
    /\ ballots[c]["jurorA"] = [path |-> "castVoteDev", val |-> 1]
    /\ ballots[c]["jurorB"] = [path |-> "castVote", val |-> 1]
    /\ cases[c].plainGuilty = 1 /\ cases[c].plainNotGuilty = 0
    /\ cases[c].votesCast = 2


\* ------------------------------------------------ the FHE instance (part_006)
Inits == {k \in 1..Len(promises) : promises[k].kind = "init"}
Settled(k) == promises[k].state # "pending"
TheInstance == <<"instance", 1>>

\* C37 (as the spec states it): initSDK and createInstance run at most once
\* and every call of getFheInstance returns the same promise, that is, no two
\* calls return different promises.
C37_EveryCallReturnsSamePromise ==
  /\ sdk.initSDK <= 1 /\ sdk.createInstance <= 1
  /\ \A j, k \in Calls : j = k

\* C37 (amended): for any number and interleaving of calls of getFheInstance
\* the SDK is imported, initialized and instantiated at most once and at most
\* one initialization promise exists; every call returns a promise of its own
\* that follows the one cached promise, so all calls that have settled have
\* settled alike, and a fulfilled one holds the one instance.
C37_OneInstance ==
  /\ sdk.imports <= 1 /\ sdk.initSDK <= 1 /\ sdk.createInstance <= 1
  /\ Cardinality(Inits) <= 1
  /\ (Calls # {}) => instancePromise \in Inits
  /\ \A k \in Calls :
       /\ promises[k].follows = instancePromise
       /\ Settled(k) =>
            /\ promises[k].state = promises[instancePromise].state
            /\ promises[k].value = promises[instancePromise].value
       /\ promises[k].state = "fulfilled" => promises[k].value = TheInstance
  /\ \A j, k \in Calls :
       Settled(j) /\ Settled(k) =>
         promises[j].state = promises[k].state /\ promises[j].value = promises[k].value

\* three calls, the first starting the initialization, one made while it is
\* under way and one after it has finished, all holding the same instance
C37_Witness ==
  /\ Cardinality(Calls) = 3
  /\ \E i, j, k \in Calls :
       /\ promises[i].during = "idle"
       /\ promises[j].during \in {"import", "initSDK", "createInstance"}
       /\ promises[k].during = "done"
  /\ \A k \in Calls : promises[k].state = "fulfilled" /\ promises[k].value = TheInstance
  /\ sdk.initSDK = 1 /\ sdk.createInstance = 1

\* C38: once the initialization started by getFheInstance has failed, the
\* rejected promise stays cached and nothing is initialized again: the cache,
\* the rejected promise and the SDK's run counts never change, and every call
\* of getFheInstance, encryptVerdict's and decryptTallies' included, is either
\* still waiting on the cached promise or has failed with its error; none
\* gets an instance.
C38_FailureStaysCached ==
  [][\A f \in Inits :
       promises[f].state = "rejected" =>
         /\ instancePromise = f /\ instancePromise' = f
         /\ promises[f].value \in InitErrors
         /\ promises'[f] = promises[f]
         /\ sdk' = sdk /\ sdk.pc = "failed"
         /\ Inits' = {f}
         /\ \A k \in Calls' :
              LET out == callerOutcome(promises'[k])
              IN /\ promises'[k].follows = f
                 /\ out.state \in {"waiting", "rejected"}
                 /\ out.state = "rejected" => out.value = promises[f].value]_vars

\* initSDK() threw; encryptVerdict and decryptTallies, both called after the
\* failure, have failed with that error and initSDK ran only once
C38_Witness ==
  /\ instancePromise # 0
  /\ promises[instancePromise].state = "rejected"
  /\ promises[instancePromise].value = "InitSDKError"
  /\ \E j, k \in Calls :
       /\ promises[j].by = "encryptVerdict" /\ promises[k].by = "decryptTallies"
       /\ promises[j].during = "failed" /\ promises[k].during = "failed"
       /\ callerOutcome(promises[j]) = [state |-> "rejected", value |-> "InitSDKError"]
       /\ callerOutcome(promises[k]) = [state |-> "rejected", value |-> "InitSDKError"]
  /\ sdk.imports = 1 /\ sdk.initSDK = 1 /\ sdk.createInstance = 0

====
